---- MODULE Spec2Model ----
(***************************************************************************)
(* Model of the Fitbit ingestion lambda (get-fitbit-lambda/                *)
(* lambda_function.py) and of the dashboard's weekly average (app.py).     *)
(*                                                                         *)
(* Four specifications share the module:                                   *)
(*   Spec       the scheduled handler, run after run;                      *)
(*   SpecStore  one category's store under successive ingestions;          *)
(*   SpecConc   two handler runs inside merge_and_upload_to_s3 at once;    *)
(*   SpecAvg    calculate_weekly_average applied to a loaded table.        *)
(***************************************************************************)
EXTENDS Integers, Sequences, FiniteSets, TLC

VARIABLES
    SecretString,      \* Secrets Manager: the JSON text stored under SECRET_NAME
    store,             \* S3 bucket "fitbit-dashboard": key -> object or NoSuchKey
    pc,                \* handler: the step about to execute
    run,               \* number of handler invocations so far
    today,             \* the calendar day, as a day number counted from 1
    target_date,       \* handler local target_date, a day number (0: not set yet)
    access_token,      \* handler local access_token
    new_refresh_token, \* handler local new_refresh_token
    token_status,      \* status code of this run's token response (0: none yet)
    new_df,            \* the DataFrame handed to merge_and_upload_to_s3
    fetched,           \* categories whose endpoint was requested in this run
    extracted,         \* categories whose response was transformed in this run
    s3_reads,          \* categories whose object was requested from S3 in this run
    s3_writes,         \* categories whose object was uploaded in this run
    raised,            \* the exception that left the handler, or NoException
    result,            \* the handler's return value, or NoResult
    cat,               \* SpecStore: the category under ingestion
    merged_log,        \* SpecStore: the DataFrames merged so far, in order
    m_pc,              \* SpecConc: each run's position inside the merge
    m_cat,             \* SpecConc: the category each run merges
    m_new,             \* SpecConc: each run's new_df
    m_merged,          \* SpecConc: each run's local merged_df
    a_df,              \* SpecAvg: the table handed to calculate_weekly_average
    a_avg,             \* SpecAvg: the value returned
    a_pc               \* SpecAvg: position

handler_vars == <<SecretString, pc, run, target_date, access_token,
                  new_refresh_token, token_status, fetched, extracted,
                  s3_reads, s3_writes, raised, result>>
store_vars == <<cat, merged_log>>
conc_vars == <<m_pc, m_cat, m_new, m_merged>>
avg_vars == <<a_df, a_avg, a_pc>>
vars == <<handler_vars, store_vars, conc_vars, avg_vars, store, today, new_df>>

(***************************************************************************)
(* Bounds                                                                  *)
(***************************************************************************)
MaxRuns == 1        \* handler invocations explored by Spec
MaxIngest == 2      \* ingestions explored by SpecStore
MaxRecords == 2     \* records in one API response (sessions, samples)
MaxRows == 2        \* rows of the table given to calculate_weekly_average

(***************************************************************************)
(* Constants of the program                                                *)
(***************************************************************************)
HEART_RATE_THRESHOLD == 90
SECRET_NAME == "prod/dashboard/fitbit"
WindowDays == 7

None == "None"
\* The ClientError response of get_object for a key that does not exist
NoSuchKey == [Error |-> [Code |-> "NoSuchKey"]]
NoException == [step |-> "none", error |-> "none"]
NoResult == [statusCode |-> 0]

Categories == {"sleep", "steps", "activity", "low_intensity"}

\* The order in which handler treats the categories.
CategoryOrder == <<"sleep", "steps", "activity", "low_intensity">>

key_shared(c) == "data/fitbit.parquet"

\* The object key handler passes for category c
key(c) ==
    CASE c = "sleep" -> "data/sleep/sleep.parquet"
      [] c = "steps" -> "data/steps/steps.parquet"
      [] c = "activity" -> "data/activity/activity.parquet"
      [] c = "low_intensity" -> "data/low_intensity/low_intensity.parquet"

Keys == {key(c) : c \in Categories}

(***************************************************************************)
(* Secrets Manager                                                         *)
(***************************************************************************)
\* A JSON object text is the set of its "key": value members; json_loads
\* turns it into a dict and json_dumps writes a dict back as text.
json_loads(text) ==
    [k \in {m[1] : m \in text} |-> CHOOSE v \in {m[2] : m \in text} : <<k, v>> \in text]

json_dumps(dict) == {<<k, dict[k]>> : k \in DOMAIN dict}

get_fitbit_secrets(secret_string) == json_loads(secret_string)

SetItemDroppingRest(dict, k, v) == [x \in {k} |-> v]

\* secrets_dict["FITBIT_REFRESH_TOKEN"] = new_refresh_token
SetItem(dict, k, v) ==
    [x \in DOMAIN dict \cup {k} |-> IF x = k THEN v ELSE dict[x]]

\* The SecretString written by update_fitbit_secrets
update_fitbit_secrets(secret_string, refresh_token) ==
    json_dumps(SetItem(get_fitbit_secrets(secret_string),
                       "FITBIT_REFRESH_TOKEN", refresh_token))

RefreshTokens == {"rt0", "rt1"}
AccessTokens == {"at1"}
TokenStatuses == {200, 401}
ApiStatuses == {200, 429}

(***************************************************************************)
(* Category extractors                                                     *)
(***************************************************************************)
RECURSIVE SeqsUpTo(_, _)
SeqsUpTo(S, n) ==
    IF n = 0 THEN {<<>>}
    ELSE LET shorter == SeqsUpTo(S, n - 1)
         IN shorter \cup {Append(s, x) : s \in {t \in shorter : Len(t) = n - 1}, x \in S}

\* minutes / 60 as an exact value: whole hours and the remaining sixtieths
Hours(minutes) == [whole |-> minutes \div 60, sixtieths |-> minutes % 60]

SleepSessions(d) ==
    {[minutesAsleep |-> 420, startTime |-> "23:00", endTime |-> "06:00", dateOfSleep |-> d],
     [minutesAsleep |-> 90, startTime |-> "13:00", endTime |-> "14:30", dateOfSleep |-> d]}

StepValues == {300, 500}
ZoneMinutes == {30}
Bpm == {89, 90}

\* The JSON bodies the API can answer with for category c and day d
\* (the list the process_* function reads; single-day request).
Responses(c, d) ==
    CASE c = "sleep" -> SeqsUpTo(SleepSessions(d), MaxRecords)
      [] c = "steps" -> {<<[dateTime |-> d, value |-> v]>> : v \in StepValues}
      [] c = "activity" ->
            {<<>>} \cup {<<[dateTime |-> d, value |-> [activeZoneMinutes |-> v]]>> :
                            v \in ZoneMinutes}
      [] c = "low_intensity" ->
            {[date |-> d, dataset |-> s] :
                s \in SeqsUpTo({[value |-> b] : b \in Bpm}, MaxRecords)}

SleepRow(record) ==
    [total_sleep_hour |-> Hours(record.minutesAsleep),
     start_time |-> record.startTime,
     end_time |-> record.endTime,
     date |-> record.dateOfSleep]

\* sleep_records[0] raises IndexError on an empty list
process_sleep_data_raises(sleep_records) == sleep_records = <<>>

process_sleep_data(sleep_records) ==
    [i \in 1..Len(sleep_records) |-> SleepRow(sleep_records[i])]

StepsRow(record) == [steps |-> record.value, date |-> record.dateTime]

process_steps_data(steps_records) ==
    [i \in 1..Len(steps_records) |-> StepsRow(steps_records[i])]

ActivityRow(record) ==
    [active_zone_minutes |-> record.value.activeZoneMinutes, date |-> record.dateTime]

process_activity_data(activity_records) ==
    [i \in 1..Len(activity_records) |-> ActivityRow(activity_records[i])]

\* int((df["value"] >= HEART_RATE_THRESHOLD).sum())
RECURSIVE CountLowIntensity(_)
CountLowIntensity(dataset) ==
    IF dataset = <<>> THEN 0
    ELSE CountLowIntensity(Tail(dataset))
         + (IF Head(dataset).value >= HEART_RATE_THRESHOLD THEN 1 ELSE 0)

process_low_intensity_data(heart_data) ==
    IF heart_data.dataset # <<>>
    THEN <<[low_intensity_minutes |-> CountLowIntensity(heart_data.dataset),
            date |-> heart_data.date]>>
    ELSE <<>>

process_raises(c, response) ==
    IF c = "sleep" THEN process_sleep_data_raises(response) ELSE FALSE

process(c, response) ==
    CASE c = "sleep" -> process_sleep_data(response)
      [] c = "steps" -> process_steps_data(response)
      [] c = "activity" -> process_activity_data(response)
      [] c = "low_intensity" -> process_low_intensity_data(response)

(***************************************************************************)
(* Merge-upload store                                                      *)
(***************************************************************************)
concat(a, b) == a \o b

keep_duplicates(df) == df

\* DataFrame.drop_duplicates(): the first of each group of equal rows stays
RECURSIVE drop_duplicates(_)
drop_duplicates(df) ==
    IF df = <<>> THEN <<>>
    ELSE LET front == drop_duplicates(SubSeq(df, 1, Len(df) - 1))
             last == df[Len(df)]
         IN IF \E i \in 1..Len(front) : front[i] = last
            THEN front
            ELSE Append(front, last)

df_to_parquet_bytes(df) == [format |-> "parquet", rows |-> df]

read_parquet(object) == object.rows

merged_df_new_only(existing, df) ==
    IF existing = NoSuchKey THEN df ELSE drop_duplicates(df)

\* merged_df of merge_and_upload_to_s3, from what get_object answered
merged_df(existing, df) ==
    IF existing = NoSuchKey
    THEN df
    ELSE drop_duplicates(concat(read_parquet(existing), df))

\* The object merge_and_upload_to_s3 uploads
merge_and_upload_to_s3(existing, df) == df_to_parquet_bytes(merged_df(existing, df))

S3ReadOutcomes == {"ok", "AccessDenied"}
S3WriteOutcomes == {"ok", "error"}

Rows(object) == IF object = NoSuchKey THEN <<>> ELSE read_parquet(object)
RowSet(df) == {df[i] : i \in 1..Len(df)}
RowsOn(df, d) == {i \in 1..Len(df) : df[i].date = d}

(***************************************************************************)
(* Scheduled orchestrator: handler                                         *)
(***************************************************************************)
HandlerStepsSwapped ==
    <<"RefreshToken", "ExtractSteps", "MergeSteps", "ExtractSleep", "MergeSleep",
      "ExtractActivity", "MergeActivity", "ExtractLowIntensity",
      "MergeLowIntensity", "Done">>

\* The statements of handler, in program order
HandlerSteps ==
    <<"RefreshToken", "ExtractSleep", "MergeSleep", "ExtractSteps", "MergeSteps",
      "ExtractActivity", "MergeActivity", "ExtractLowIntensity",
      "MergeLowIntensity", "Done">>

ExtractStep(c) ==
    CASE c = "sleep" -> "ExtractSleep"
      [] c = "steps" -> "ExtractSteps"
      [] c = "activity" -> "ExtractActivity"
      [] c = "low_intensity" -> "ExtractLowIntensity"

MergeStep(c) ==
    CASE c = "sleep" -> "MergeSleep"
      [] c = "steps" -> "MergeSteps"
      [] c = "activity" -> "MergeActivity"
      [] c = "low_intensity" -> "MergeLowIntensity"

\* The statement that follows `step` when it completes
NextStep(step) ==
    HandlerSteps[(CHOOSE i \in 1..Len(HandlerSteps) : HandlerSteps[i] = step) + 1]

Swallow(step) == NextStep(step)

\* handler has no try/except: an exception raised in `step` leaves the handler
Raise(step) == "Failed"

\* The dict handler returns once its last statement has completed
Returned(next, date) ==
    IF next = "Done" THEN [statusCode |-> 200, date |-> date] ELSE NoResult

SecretOutcomes == {"ok", "error"}

TokenOkOrClientError(status) == status < 500

\* refresh_fitbit_access_token: if response.status_code == 200
TokenOk(status) == status = 200

\* fetch_fitbit_data: if response.status_code == 200
ApiOk(status) == status = 200

HandlerIdle ==
    /\ pc = "Idle"
    /\ run = 0
    /\ target_date = 0
    /\ access_token = None
    /\ new_refresh_token = None
    /\ token_status = 0
    /\ fetched = <<>>
    /\ extracted = <<>>
    /\ s3_reads = <<>>
    /\ s3_writes = <<>>
    /\ raised = NoException
    /\ result = NoResult

StoreIdle == cat = None /\ merged_log = <<>>
ConcIdle == m_pc = <<>> /\ m_cat = <<>> /\ m_new = <<>> /\ m_merged = <<>>
AvgIdle == a_df = <<>> /\ a_avg = None /\ a_pc = "idle"

\* The secret as provisioned before the first run
ProvisionedSecrets ==
    LET base == {<<"FITBIT_CLIENT_ID", "client-id">>,
                 <<"FITBIT_CLIENT_SECRET", "client-secret">>,
                 <<"FITBIT_REFRESH_TOKEN", "rt0">>}
    IN {base, base \cup {<<"FITBIT_USER_ID", "user-id">>}}

EmptyBucket == [k \in Keys |-> NoSuchKey]

Init ==
    /\ SecretString \in ProvisionedSecrets
    /\ store = EmptyBucket
    /\ today = 2
    /\ new_df = <<>>
    /\ HandlerIdle
    /\ StoreIdle
    /\ ConcIdle
    /\ AvgIdle

\* The scheduler invokes handler (a new run, the same day or the next)
Invoke ==
    /\ pc \in {"Idle", "Done", "Failed"}
    /\ run < MaxRuns
    /\ run' = run + 1
    /\ \E later \in {0, 1} : today' = today + (IF run = 0 THEN 0 ELSE later)
    /\ pc' = "RefreshToken"
    /\ target_date' = 0
    /\ access_token' = None
    /\ new_refresh_token' = None
    /\ token_status' = 0
    /\ fetched' = <<>>
    /\ extracted' = <<>>
    /\ s3_reads' = <<>>
    /\ s3_writes' = <<>>
    /\ raised' = NoException
    /\ result' = NoResult
    /\ new_df' = <<>>
    /\ UNCHANGED <<SecretString, store, store_vars, conc_vars, avg_vars>>

\* access_token, new_refresh_token = refresh_fitbit_access_token(), then target_date
RefreshToken ==
    /\ pc = "RefreshToken"
    /\ \E get \in SecretOutcomes, status \in TokenStatuses, at \in AccessTokens,
          rt \in RefreshTokens, put \in SecretOutcomes :
         IF get # "ok"
         THEN /\ raised' = [step |-> pc, error |-> "get_secret_value"]
              /\ pc' = Raise(pc)
              /\ UNCHANGED <<SecretString, token_status, access_token,
                             new_refresh_token, target_date>>
         ELSE IF ~TokenOk(status)
         THEN /\ token_status' = status
              /\ raised' = [step |-> pc, error |-> "token"]
              /\ pc' = Raise(pc)
              /\ UNCHANGED <<SecretString, access_token, new_refresh_token, target_date>>
         ELSE IF put # "ok"
         THEN /\ token_status' = status
              /\ raised' = [step |-> pc, error |-> "update_secret"]
              /\ pc' = Raise(pc)
              /\ UNCHANGED <<SecretString, access_token, new_refresh_token, target_date>>
         ELSE /\ token_status' = status
              /\ SecretString' = update_fitbit_secrets(SecretString, rt)
              /\ access_token' = at
              /\ new_refresh_token' = rt
              /\ target_date' = today - 1
              /\ pc' = NextStep(pc)
              /\ raised' = raised
    /\ result' = Returned(pc', target_date')
    /\ UNCHANGED <<store, run, today, new_df, fetched, extracted, s3_reads, s3_writes,
                   store_vars, conc_vars, avg_vars>>

\* data = fetch_fitbit_data(endpoint, access_token); df = process_*_data(data)
Extract(c) ==
    /\ pc = ExtractStep(c)
    /\ fetched' = Append(fetched, c)
    /\ \E status \in ApiStatuses, response \in Responses(c, target_date) :
         IF ~ApiOk(status)
         THEN /\ raised' = [step |-> pc, error |-> "api"]
              /\ pc' = Raise(pc)
              /\ UNCHANGED <<new_df, extracted>>
         ELSE IF process_raises(c, response)
         THEN /\ raised' = [step |-> pc, error |-> "IndexError"]
              /\ pc' = Raise(pc)
              /\ UNCHANGED <<new_df, extracted>>
         ELSE /\ new_df' = process(c, response)
              /\ extracted' = Append(extracted, c)
              /\ pc' = NextStep(pc)
              /\ raised' = raised
    /\ result' = Returned(pc', target_date)
    /\ UNCHANGED <<SecretString, store, run, today, target_date, access_token,
                   new_refresh_token, token_status, s3_reads, s3_writes,
                   store_vars, conc_vars, avg_vars>>

\* merge_and_upload_to_s3(df, bucket="fitbit-dashboard", key=...)
Merge(c) ==
    /\ pc = MergeStep(c)
    /\ s3_reads' = Append(s3_reads, c)
    /\ \E read \in S3ReadOutcomes, write \in S3WriteOutcomes :
         IF read # "ok"
         THEN /\ raised' = [step |-> pc, error |-> read]
              /\ pc' = Raise(pc)
              /\ UNCHANGED <<store, s3_writes>>
         ELSE IF write # "ok"
         THEN /\ raised' = [step |-> pc, error |-> "upload"]
              /\ pc' = Raise(pc)
              /\ UNCHANGED <<store, s3_writes>>
         ELSE /\ store' = [store EXCEPT
                             ![key(c)] = merge_and_upload_to_s3(store[key(c)], new_df)]
              /\ s3_writes' = Append(s3_writes, c)
              /\ pc' = NextStep(pc)
              /\ raised' = raised
    /\ result' = Returned(pc', target_date)
    /\ UNCHANGED <<SecretString, run, today, target_date, access_token,
                   new_refresh_token, token_status, new_df, fetched, extracted,
                   store_vars, conc_vars, avg_vars>>

Next ==
    \/ Invoke
    \/ RefreshToken
    \/ \E c \in Categories : Extract(c)
    \/ \E c \in Categories : Merge(c)

Spec == Init /\ [][Next]_vars

(***************************************************************************)
(* SpecStore: one category's store object under successive handler runs.   *)
(* Each step is one run of handler seen from category `cat`: the run's     *)
(* Extract and Merge steps for `cat`, or a run that raised before its      *)
(* upload for `cat`.                                                       *)
(***************************************************************************)
InitStore ==
    /\ SecretString \in ProvisionedSecrets
    /\ store = EmptyBucket
    /\ today = 2
    /\ new_df = <<>>
    /\ HandlerIdle
    /\ cat \in Categories
    /\ merged_log = <<>>
    /\ ConcIdle
    /\ AvgIdle

Ingest ==
    /\ run < MaxIngest
    /\ run' = run + 1
    /\ \E later \in {0, 1} : today' = today + later
    /\ \E response \in Responses(cat, today' - 1) :
         /\ ~process_raises(cat, response)
         /\ new_df' = process(cat, response)
    /\ store' = [store EXCEPT
                   ![key(cat)] = merge_and_upload_to_s3(store[key(cat)], new_df')]
    /\ merged_log' = Append(merged_log, new_df')
    /\ UNCHANGED <<SecretString, pc, target_date, access_token, new_refresh_token,
                   token_status, fetched, extracted, s3_reads, s3_writes, raised,
                   result, cat, conc_vars, avg_vars>>

IngestRaises ==
    /\ run < MaxIngest
    /\ run' = run + 1
    /\ \E later \in {0, 1} : today' = today + later
    /\ UNCHANGED <<SecretString, pc, target_date, access_token, new_refresh_token,
                   token_status, fetched, extracted, s3_reads, s3_writes, raised,
                   result, store, new_df, store_vars, conc_vars, avg_vars>>

NextStore == Ingest \/ IngestRaises

SpecStore == InitStore /\ [][NextStore]_vars

(***************************************************************************)
(* SpecConc: two handler runs of the same day inside                       *)
(* merge_and_upload_to_s3, their S3 requests interleaved.                  *)
(***************************************************************************)
Runs == {1, 2}

\* The DataFrames the extractor of category c can hand over for day d
Extracted(c, d) ==
    {process(c, response) : response \in {r \in Responses(c, d) : ~process_raises(c, r)}}

\* The bucket before the two runs: empty, or holding the day before
EarlierBuckets ==
    {EmptyBucket,
     [k \in Keys |->
        LET c == CHOOSE x \in Categories : key(x) = k
        IN merge_and_upload_to_s3(NoSuchKey, CHOOSE df \in Extracted(c, 1) : df # <<>>)]}

InitConc ==
    /\ SecretString \in ProvisionedSecrets
    /\ store \in EarlierBuckets
    /\ today = 3
    /\ new_df = <<>>
    /\ HandlerIdle
    /\ StoreIdle
    /\ m_cat \in [Runs -> Categories]
    /\ m_new \in {f \in [Runs -> UNION {Extracted(c, 2) : c \in Categories}] :
                    \A p \in Runs : f[p] \in Extracted(m_cat[p], 2)}
    /\ m_pc = [p \in Runs |-> "get_object"]
    /\ m_merged = [p \in Runs |-> <<>>]
    /\ AvgIdle

\* s3_client.get_object(...) and the computation of merged_df
GetObject(p) ==
    /\ m_pc[p] = "get_object"
    /\ \E read \in S3ReadOutcomes :
         IF read # "ok"
         THEN /\ m_pc' = [m_pc EXCEPT ![p] = "raised"]
              /\ UNCHANGED m_merged
         ELSE /\ m_merged' = [m_merged EXCEPT
                                ![p] = merged_df(store[key(m_cat[p])], m_new[p])]
              /\ m_pc' = [m_pc EXCEPT ![p] = "upload_fileobj"]
    /\ UNCHANGED <<handler_vars, store_vars, avg_vars, store, today, new_df, m_cat, m_new>>

\* buffer = df_to_parquet_bytes(merged_df); s3_client.upload_fileobj(buffer, ...)
Upload(p) ==
    /\ m_pc[p] = "upload_fileobj"
    /\ \E write \in S3WriteOutcomes :
         IF write # "ok"
         THEN /\ m_pc' = [m_pc EXCEPT ![p] = "raised"]
              /\ UNCHANGED store
         ELSE /\ store' = [store EXCEPT
                             ![key(m_cat[p])] = df_to_parquet_bytes(m_merged[p])]
              /\ m_pc' = [m_pc EXCEPT ![p] = "done"]
    /\ UNCHANGED <<handler_vars, store_vars, avg_vars, today, new_df, m_cat, m_new,
                   m_merged>>

NextConc == \E p \in Runs : GetObject(p) \/ Upload(p)

SpecConc == InitConc /\ [][NextConc]_vars

(***************************************************************************)
(* SpecAvg: calculate_weekly_average of app.py                             *)
(***************************************************************************)
\* The day the dashboard is opened
AvgToday == 10

AvgDates == {AvgToday - 8, AvgToday - 7, AvgToday - 6, AvgToday - 1, AvgToday,
             AvgToday + 1}
AvgValues == {1, 3}

\* df.groupby("date")[metric].sum().reset_index(): one row per date, by date
RECURSIVE SumOn(_, _)
SumOn(df, d) ==
    IF df = <<>> THEN 0
    ELSE SumOn(Tail(df), d) + (IF Head(df).date = d THEN Head(df).metric ELSE 0)

groupby_date_sum(df) ==
    [d \in {df[i].date : i \in 1..Len(df)} |-> SumOn(df, d)]

RECURSIVE SumOver(_, _)
SumOver(f, S) ==
    IF S = {} THEN 0
    ELSE LET x == CHOOSE y \in S : TRUE IN f[x] + SumOver(f, S \ {x})

\* Series.mean() as an exact fraction; NaN for an empty series
NaN == [num |-> 0, den |-> 0]
mean(f, S) == [num |-> SumOver(f, S), den |-> Cardinality(S)]

\* start_date = today - timedelta(days=7)
start_date(day) == day - WindowDays

calculate_weekly_average(df, day) ==
    LET grouped == groupby_date_sum(df)
        recent_data == {d \in DOMAIN grouped : d >= start_date(day) /\ d <= day}
        avg == mean(grouped, recent_data)
    IN IF avg # NaN THEN avg ELSE [num |-> 0, den |-> 1]

LoadedTables ==
    SeqsUpTo({[date |-> d, metric |-> v] : d \in AvgDates, v \in AvgValues}, MaxRows)
    \ {<<>>}

InitAvg ==
    /\ SecretString \in ProvisionedSecrets
    /\ store = EmptyBucket
    /\ today = AvgToday
    /\ new_df = <<>>
    /\ HandlerIdle
    /\ StoreIdle
    /\ ConcIdle
    /\ a_df \in LoadedTables
    /\ a_avg = None
    /\ a_pc = "loaded"

Calculate ==
    /\ a_pc = "loaded"
    /\ a_avg' = calculate_weekly_average(a_df, today)
    /\ a_pc' = "shown"
    /\ UNCHANGED <<handler_vars, store_vars, conc_vars, store, today, new_df, a_df>>

NextAvg == Calculate

SpecAvg == InitAvg /\ [][NextAvg]_vars

(***************************************************************************)
(* Properties                                                              *)
(***************************************************************************)
IsPrefix(s, t) == Len(s) <= Len(t) /\ s = SubSeq(t, 1, Len(s))

StoreRows == Rows(store[key(cat)])

\* An Ingest step: one more DataFrame was merged into the store
Merged == Len(merged_log') = Len(merged_log) + 1

\* C1: merging the rows R that the previous merge of the same store object
\* merged leaves the object's row count as the previous merge left it.
C1_RerunKeepsRowCount ==
    [][(/\ Merged
        /\ merged_log # <<>>
        /\ new_df' = merged_log[Len(merged_log)])
       => Len(Rows(store'[key(cat)])) = Len(StoreRows)]_vars

\* C2: when the object does not exist, the merge uploads the object it
\* would upload over an existing object with no rows.
C2_AbsentStoreAsEmpty ==
    [][(Merged /\ store[key(cat)] = NoSuchKey)
       => store'[key(cat)]
            = merge_and_upload_to_s3(df_to_parquet_bytes(<<>>), new_df')]_vars

\* C3: after a merge the distinct rows of the object are exactly the
\* distinct rows it held before together with those of the new rows, and
\* no step ever takes a distinct row out of any object.
C3_NoDataLoss ==
    [][/\ Merged => RowSet(Rows(store'[key(cat)])) = RowSet(StoreRows) \cup RowSet(new_df')
       /\ \A k \in Keys : RowSet(Rows(store[k])) \subseteq RowSet(Rows(store'[k]))]_vars

C3_Witness ==
    /\ cat = "steps"
    /\ Len(merged_log) >= 2
    /\ \E i, j \in 1..Len(StoreRows) : StoreRows[i].date # StoreRows[j].date

\* C4: a run whose token response was not 200 has ended as failed with the
\* secret and every store object as they were, no endpoint requested, no
\* object read or written and no result returned.
C4_TokenFailureIsFatal ==
    [][token_status' \notin {0, 200}
       => /\ pc' = "Failed"
          /\ SecretString' = SecretString
          /\ store' = store
          /\ fetched' = <<>>
          /\ s3_reads' = <<>>
          /\ s3_writes' = <<>>
          /\ result' = NoResult]_vars

C4_Witness == pc = "Failed" /\ token_status = 401 /\ raised.error = "token"

\* C5 as stated: when one category's extraction or merge raised, every
\* other category has still been extracted and merged when the run ends.
C5_FailuresIsolated ==
    \A c \in Categories :
        (/\ token_status = 200
         /\ raised.step \in {ExtractStep(c), MergeStep(c)}
         /\ pc \in {"Done", "Failed"})
        => \A o \in Categories \ {c} :
              /\ o \in RowSet(extracted)
              /\ o \in RowSet(s3_writes)

\* C5 amended: an exception in one category's extraction or merge ends the
\* run: no result, the categories before it merged, none after it touched.
C5_FailFast ==
    \A i \in 1..Len(CategoryOrder) :
        raised.step \in {ExtractStep(CategoryOrder[i]), MergeStep(CategoryOrder[i])}
        => /\ pc = "Failed"
           /\ result = NoResult
           /\ fetched = SubSeq(CategoryOrder, 1, i)
           /\ s3_writes = SubSeq(CategoryOrder, 1, i - 1)

C5_Witness ==
    /\ pc = "Failed"
    /\ raised.step = "ExtractSteps"
    /\ s3_writes = <<"sleep">>
    /\ store[key("sleep")] # NoSuchKey

StoreDates == {StoreRows[i].date : i \in 1..Len(StoreRows)}

\* C6 as stated: a store holds at most one row per calendar date.
C6_OneRowPerDate ==
    \A d \in StoreDates : Cardinality(RowsOn(StoreRows, d)) <= 1

\* Every DataFrame merged so far holds at most one row for day d, and all
\* of them the same row
SameSingleRow(d) ==
    /\ \A i \in 1..Len(merged_log) : Cardinality(RowsOn(merged_log[i], d)) <= 1
    /\ Cardinality(UNION {{merged_log[i][n] : n \in RowsOn(merged_log[i], d)} :
                            i \in 1..Len(merged_log)}) <= 1

\* C6 amended: a store holds at most one row for a date for which every
\* extraction merged so far returned at most one row, always the same one.
C6_OneRowPerDateIfDeterministic ==
    \A d \in StoreDates : SameSingleRow(d) => Cardinality(RowsOn(StoreRows, d)) <= 1

C6_Witness ==
    /\ Len(merged_log) = 2
    /\ merged_log[1] # <<>>
    /\ merged_log[1] = merged_log[2]
    /\ Len(StoreRows) = 1

\* C7: the secret written by a successful refresh holds the new refresh
\* token, and every other field with the value the secret had before.
C7_OnlyRefreshTokenChanges ==
    [][(pc = "RefreshToken" /\ new_refresh_token' # None)
       => LET before == json_loads(SecretString)
              after == json_loads(SecretString')
          IN /\ after["FITBIT_REFRESH_TOKEN"] = new_refresh_token'
             /\ DOMAIN after = DOMAIN before
             /\ \A k \in DOMAIN before \ {"FITBIT_REFRESH_TOKEN"} :
                    after[k] = before[k]]_vars

C7_Witness ==
    /\ pc = "ExtractSleep"
    /\ new_refresh_token = "rt1"
    /\ SecretString = {<<"FITBIT_CLIENT_ID", "client-id">>,
                       <<"FITBIT_CLIENT_SECRET", "client-secret">>,
                       <<"FITBIT_REFRESH_TOKEN", "rt1">>,
                       <<"FITBIT_USER_ID", "user-id">>}

BothDone == \A p \in Runs : m_pc[p] = "done"

Kept(p) == RowSet(m_new[p]) \subseteq RowSet(Rows(store[key(m_cat[p])]))

\* C8: two concurrent merges into different categories' objects both keep
\* their rows; (witness) into the same object, one run's rows can be lost.
C8_NoLossAcrossCategories ==
    (BothDone /\ m_cat[1] # m_cat[2]) => \A p \in Runs : Kept(p)

C8_LostUpdate ==
    /\ BothDone
    /\ m_cat[1] = m_cat[2]
    /\ \E p \in Runs : ~Kept(p)

\* C9: the value returned is the mean of the per-date totals of the dates
\* from today - 6 to today, or 0.0 when there is none.
C9_SevenDayWindow ==
    a_pc = "shown"
    => LET grouped == groupby_date_sum(a_df)
           week == {d \in DOMAIN grouped : d >= today - 6 /\ d <= today}
       IN IF week = {}
          THEN a_avg.num = 0
          ELSE a_avg.num * Cardinality(week) = SumOver(grouped, week) * a_avg.den

\* C10: within a run the endpoints are requested, the responses transformed
\* and the objects read and written in the order sleep, steps, activity,
\* low_intensity, each category merged before the next is fetched; nothing
\* is fetched before the token response was 200 and the new refresh token is
\* in the secret; and a result is returned exactly when all four are written.
C10_FixedOrder ==
    /\ IsPrefix(fetched, CategoryOrder)
    /\ IsPrefix(extracted, CategoryOrder)
    /\ IsPrefix(s3_reads, CategoryOrder)
    /\ IsPrefix(s3_writes, CategoryOrder)
    /\ Len(s3_writes) <= Len(s3_reads)
    /\ Len(s3_reads) <= Len(extracted)
    /\ Len(extracted) <= Len(fetched)
    /\ Len(fetched) <= Len(s3_writes) + 1
    /\ fetched # <<>>
       => /\ token_status = 200
          /\ new_refresh_token # None
          /\ <<"FITBIT_REFRESH_TOKEN", new_refresh_token>> \in SecretString
    /\ (result # NoResult) <=> (pc = "Done")
    /\ pc = "Done" => s3_writes = CategoryOrder

C10_Witness == pc = "Done" /\ result.statusCode = 200 /\ s3_writes = CategoryOrder

====
